---- MODULE Spec2Model ----
(***************************************************************************)
(* Lot workflow and ephemeral access engine of the IRFIS backend.          *)
(*                                                                         *)
(* The model follows the Express handlers of the lot routers.  A request   *)
(* is a small process: every action is the resolution of one `await` of a  *)
(* handler followed by the synchronous code that runs up to the next       *)
(* `await`.  The database holds the lot documents, the user documents and  *)
(* the replacement requests.  Time is the millisecond clock of Date.now(). *)
(***************************************************************************)
EXTENDS Integers, Sequences, FiniteSets, TLC

VARIABLES lots, users, requests, now, reqs, okCount, nOps, nTicks, nFaults

vars == <<lots, users, requests, now, reqs, okCount, nOps, nTicks, nFaults>>

(***************************************************************************)
(* Bounds of the exploration.                                              *)
(***************************************************************************)
MaxOps == 2
MaxTicks == 1
MaxFaults == 1

(***************************************************************************)
(* Program constants.                                                      *)
(***************************************************************************)
TokenTTL == 86400000

Undef == "undefined"

Statuses == {"pending", "verified", "rejected", "accepted", "held"}

Conditions == {"good", "worn", "replace"}

Reasons == {"defective", "damaged", "worn", "expired", "incorrect_spec", "other"}

Priorities == {"low", "medium", "high", "urgent"}

RequestedByRoles == {"track-worker", "inspector"}

Roles == {"admin", "vendor", "depot-staff", "track-worker", "inspector"}

(***************************************************************************)
(* The fixture: the users and the lot that exist in the database.  LOT002  *)
(* is an identifier no stored lot has.                                     *)
(***************************************************************************)
UserIds == {"V1", "V2", "D1", "T1", "I1"}

Anon == "anonymous"

Callers == UserIds \cup {Anon}

RoleOf(u) ==
  CASE u = "V1" -> "vendor"
    [] u = "V2" -> "vendor"
    [] u = "D1" -> "depot-staff"
    [] u = "T1" -> "track-worker"
    [] u = "I1" -> "inspector"
    [] OTHER -> "none"

LotIds == {"LOT001", "LOT002"}

SeededLots == {"LOT001"}

VendorOf(l) == IF l = "LOT001" THEN "V1" ELSE "V2"

TokenVals == {"a1b2c3d4", "e5f6a7b8"}

Slots == {"r1", "r2"}

(***************************************************************************)
(* Routing.  A request names a method and the shape of its path below      *)
(* /api/lots; the routers are tried in the order they were mounted and the *)
(* first route that matches handles the request.                           *)
(***************************************************************************)
LotRoutes ==
  << [method |-> "GET", shape |-> "/:id", handler |-> "lots.get"],
     [method |-> "PUT", shape |-> "/:id/status", handler |-> "lots.status"] >>

LotWorkflowRoutes ==
  << [method |-> "POST", shape |-> "/:id/install", handler |-> "workflow.install"],
     [method |-> "POST", shape |-> "/:id/inspection", handler |-> "workflow.inspection"],
     [method |-> "POST", shape |-> "/:id/replacement-request", handler |-> "workflow.replacement"] >>

EphemeralQrRoutes ==
  << [method |-> "POST", shape |-> "/:id/generate-qr", handler |-> "ephemeral.generateQr"],
     [method |-> "GET", shape |-> "/:id", handler |-> "ephemeral.get"] >>

(* The router of routes/qr.ts, mounted at /api/qr. *)
QrRoutes ==
  << [method |-> "POST", shape |-> "/generate", handler |-> "qr.generate"] >>

(* The public lookup of routes/users.ts, declared after GET /:id. *)
LotQrRoutes ==
  << [method |-> "GET", shape |-> "/qr/:id", handler |-> "lots.qr"] >>

(* POST /scan of routes/qr.ts. *)
QrScanRoutes ==
  << [method |-> "POST", shape |-> "/scan", handler |-> "qr.scan"] >>

AppMounts == LotRoutes \o LotWorkflowRoutes \o EphemeralQrRoutes

QrMounts == QrRoutes

RouterMounts == EphemeralQrRoutes

(* The routes that answer with a lot record without writing anything. *)
ReadMounts ==
  SelectSeq(LotRoutes \o LotQrRoutes \o EphemeralQrRoutes,
            LAMBDA route : route.method = "GET") \o QrScanRoutes

Endpoints ==
  { [method |-> "GET", shape |-> "/:id"],
    [method |-> "PUT", shape |-> "/:id/status"],
    [method |-> "POST", shape |-> "/:id/install"],
    [method |-> "POST", shape |-> "/:id/inspection"],
    [method |-> "POST", shape |-> "/:id/replacement-request"],
    [method |-> "POST", shape |-> "/:id/generate-qr"],
    [method |-> "POST", shape |-> "/generate"],
    [method |-> "GET", shape |-> "/qr/:id"],
    [method |-> "POST", shape |-> "/scan"] }

Matches(route, ep) == route.method = ep.method /\ route.shape = ep.shape

RECURSIVE Route(_, _)
Route(mounts, ep) ==
  IF mounts = << >> THEN "notFound"
  ELSE IF Matches(Head(mounts), ep) THEN Head(mounts).handler
  ELSE Route(Tail(mounts), ep)

AllowedRolesVendorInstall(h) ==
  CASE h = "lots.status" -> {"depot-staff"}
    [] h = "workflow.install" -> {"track-worker", "vendor"}
    [] h = "workflow.inspection" -> {"inspector"}
    [] h = "workflow.replacement" -> {"track-worker", "inspector"}
    [] h = "ephemeral.generateQr" -> {"vendor"}
    [] OTHER -> Roles

AllowedRoles(h) ==
  CASE h = "lots.status" -> {"depot-staff"}
    [] h = "workflow.install" -> {"track-worker"}
    [] h = "workflow.inspection" -> {"inspector"}
    [] h = "workflow.replacement" -> {"track-worker", "inspector"}
    [] h = "ephemeral.generateQr" -> {"vendor"}
    [] OTHER -> Roles

(* Routes declared without the authenticate middleware. *)
PublicHandlers == {"lots.qr"}

Authenticated(actor) == actor \in UserIds

Authorize(h, role) == role \in AllowedRoles(h)

(***************************************************************************)
(* Request bodies and query strings.  An absent field reads as undefined.  *)
(***************************************************************************)
(* req.body.qrData: absent, a string that is not JSON, or the JSON text of *)
(* an object with or without all of the required fields.                  *)
NoScan == [form |-> "absent", type |-> Undef, complete |-> FALSE]

ScanInputs ==
  { NoScan,
    [form |-> "text", type |-> Undef, complete |-> FALSE],
    [form |-> "json", type |-> "lot", complete |-> FALSE],
    [form |-> "json", type |-> "lot", complete |-> TRUE],
    [form |-> "json", type |-> "part", complete |-> TRUE],
    [form |-> "json", type |-> "box", complete |-> TRUE] }

(* JSON.parse: the parsed object, or no object when it throws. *)
JSONParse(qrData) ==
  IF qrData.form = "json" THEN {[type |-> qrData.type, complete |-> qrData.complete]} ELSE {}

EmptyBody ==
  [status |-> Undef, notes |-> Undef, sampleCheck |-> Undef,
   location |-> Undef, section |-> Undef, condition |-> Undef,
   reason |-> Undef, description |-> Undef, priority |-> Undef,
   type |-> Undef, qrData |-> NoScan]

StatusInputs == Statuses \cup {"archived"}

NoteInputs == { [notes |-> "sample ok", sampleCheck |-> "passed"] }

PlaceInputs == { [location |-> "Section A", section |-> "Track 1"],
                 [location |-> "Section A", section |-> Undef] }

ConditionInputs == Conditions \cup {Undef, "invalid"}

ReplacementInputs ==
  { [reason |-> "defective", description |-> "cracked", priority |-> Undef],
    [reason |-> "defective", description |-> "cracked", priority |-> "urgent"],
    [reason |-> "defective", description |-> Undef, priority |-> Undef],
    [reason |-> Undef, description |-> "cracked", priority |-> Undef],
    [reason |-> "bogus", description |-> "cracked", priority |-> Undef],
    [reason |-> "defective", description |-> "cracked", priority |-> "bogus"] }

TokenInputs == TokenVals \cup {Undef}

TypeInputs == {"lot", "part", "box", Undef}

BodiesFor(ep) ==
  CASE ep.shape = "/:id/status" ->
         { [EmptyBody EXCEPT !.status = s, !.notes = n.notes, !.sampleCheck = n.sampleCheck] :
             s \in StatusInputs, n \in NoteInputs }
    [] ep.shape = "/:id/install" ->
         { [EmptyBody EXCEPT !.location = p.location, !.section = p.section] : p \in PlaceInputs }
    [] ep.shape = "/:id/inspection" ->
         { [EmptyBody EXCEPT !.condition = c] : c \in ConditionInputs }
    [] ep.shape = "/:id/replacement-request" ->
         { [EmptyBody EXCEPT !.reason = x.reason, !.description = x.description,
                             !.priority = x.priority] : x \in ReplacementInputs }
    [] ep.shape = "/generate" ->
         { [EmptyBody EXCEPT !.type = t] : t \in TypeInputs }
    [] ep.shape = "/scan" ->
         { [EmptyBody EXCEPT !.qrData = d] : d \in ScanInputs }
    [] OTHER -> {EmptyBody}

QueriesFor(ep) == IF ep.method = "GET" THEN TokenInputs ELSE {Undef}

(***************************************************************************)
(* Documents.                                                              *)
(***************************************************************************)
NoMeta == [none |-> TRUE]

NoEntry == [timestamp |-> 0, actorId |-> "none", action |-> "none", metadata |-> NoMeta]

NoHist == [timestamp |-> 0, action |-> "none", targetType |-> "none", targetId |-> "none",
           metadata |-> NoMeta]

NoToken == [token |-> "none", generatedAt |-> 0, expiresAt |-> 0, generatedBy |-> "none"]

NoReq == [id |-> 0, lotId |-> "none", requestedBy |-> "none", requestedByRole |-> "none",
          reason |-> "none", description |-> "none", priority |-> "none", status |-> "none"]

NewLot(l) ==
  [id |-> l, status |-> "pending", vendorId |-> VendorOf(l),
   auditTrail |-> << >>, qrTokens |-> << >>, qrCode |-> Undef]

NoLotDoc == [id |-> "none", status |-> "none", vendorId |-> "none",
             auditTrail |-> << >>, qrTokens |-> << >>, qrCode |-> Undef]

NewUser(u) == [id |-> u, role |-> RoleOf(u), history |-> << >>]

FindLot(db, lotId) == IF lotId \in DOMAIN db THEN {db[lotId]} ELSE {}

FindUser(db, userId) == IF userId \in DOMAIN db THEN {db[userId]} ELSE {}

(***************************************************************************)
(* A request in flight: its inputs, the locals of its handler, and the     *)
(* response once it is done.  loadedStatus is the status of the document    *)
(* as Lot.findOne returned it.  preStatus, preTrailLen, preHistLen,        *)
(* faulted, faultAt and checkedAt record what the request met, for the     *)
(* properties below.                                                       *)
(***************************************************************************)
IdleReq ==
  [pc |-> "idle", handler |-> "none", actor |-> "none", lotId |-> "none",
   body |-> EmptyBody, token |-> Undef,
   lot |-> NoLotDoc, entry |-> NoEntry, tokenDoc |-> NoToken, reqDoc |-> NoReq,
   hist |-> NoHist,
   code |-> 0, message |-> "none", data |-> {},
   loadedStatus |-> "none",
   faulted |-> FALSE, faultAt |-> "none",
   preStatus |-> "none", preTrailLen |-> 0, preHistLen |-> 0,
   checkedAt |-> 0]

NewRequest(h, actor, lotId, body, token) ==
  [IdleReq EXCEPT
     !.handler = h, !.actor = actor, !.lotId = lotId, !.body = body, !.token = token,
     !.preStatus = IF lotId \in DOMAIN lots THEN lots[lotId].status ELSE "none",
     !.preTrailLen = IF lotId \in DOMAIN lots THEN Len(lots[lotId].auditTrail) ELSE 0,
     !.preHistLen = IF actor \in UserIds THEN Len(users[actor].history) ELSE 0]

Respond(q, code, message, data) ==
  [q EXCEPT !.pc = "done", !.code = code, !.message = message, !.data = data,
            !.lot = NoLotDoc, !.entry = NoEntry, !.tokenDoc = NoToken,
            !.reqDoc = NoReq, !.hist = NoHist]

(* A middleware answers before the handler has read the body or the query. *)
Reject(q, code, message) ==
  Respond([q EXCEPT !.body = EmptyBody, !.token = Undef], code, message, {})

Success(q) == q.pc = "done" /\ q.code \in {200, 201}

(***************************************************************************)
(* Input validation done by the handlers before they load the lot.         *)
(***************************************************************************)
ValidStatusAny(status) == status # Undef

ValidStatus(status) == status \in Statuses

ValidPlace(body) == body.location # Undef /\ body.section # Undef

ValidConditionPresent(condition) == condition # Undef

ValidCondition(condition) == condition # Undef /\ condition \in Conditions

HasRequiredReason(body) == body.reason # Undef

HasRequired(body) == body.reason # Undef /\ body.description # Undef

Priority(body) == IF body.priority = Undef THEN "medium" ELSE body.priority

(***************************************************************************)
(* authenticate, authorize(...) and the synchronous head of the handler.   *)
(***************************************************************************)
Enter(q) ==
  IF q.handler \in PublicHandlers
    THEN [q EXCEPT !.pc = "findLot"]
  ELSE IF ~Authenticated(q.actor)
    THEN Reject(q, 401, "Access denied. No token provided.")
  ELSE IF ~Authorize(q.handler, users[q.actor].role)
    THEN Reject(q, 403, "Access denied. Required roles")
  ELSE IF q.handler = "lots.status" /\ ~ValidStatus(q.body.status)
    THEN Respond(q, 400, "Invalid status", {})
  ELSE IF q.handler = "workflow.install" /\ ~ValidPlace(q.body)
    THEN Respond(q, 400, "Location and section are required", {})
  ELSE IF q.handler = "workflow.inspection" /\ ~ValidCondition(q.body.condition)
    THEN Respond(q, 400, "Valid condition is required (good, worn, replace)", {})
  ELSE IF q.handler = "workflow.replacement" /\ ~HasRequired(q.body)
    THEN Respond(q, 400, "Reason and description are required", {})
  ELSE IF q.handler = "qr.generate" /\ (q.body.type = Undef \/ q.lotId = Undef)
    THEN Respond(q, 400, "Type and ID are required", {})
  ELSE IF q.handler = "qr.generate" /\ q.body.type = "part"
    THEN [q EXCEPT !.pc = "findPart"]
  ELSE IF q.handler = "qr.generate" /\ q.body.type # "lot"
    THEN Respond(q, 400, "Invalid type. Must be lot or part", {})
  ELSE IF q.handler = "qr.scan" /\ q.body.qrData.form = "absent"
    THEN Respond(q, 400, "QR data is required", {})
  ELSE IF q.handler = "qr.scan" /\ JSONParse(q.body.qrData) = {}
    THEN Respond(q, 400, "Invalid QR code format", {})
  ELSE IF q.handler = "qr.scan" /\ ~q.body.qrData.complete
    THEN Respond(q, 400, "Missing required field", {})
  ELSE IF q.handler = "qr.scan" /\ q.body.qrData.type = "part"
    THEN [q EXCEPT !.pc = "findPart"]
  ELSE IF q.handler = "qr.scan" /\ q.body.qrData.type # "lot"
    THEN Respond(q, 400, "Invalid QR code type", {})
  ELSE [q EXCEPT !.pc = "findLot"]

(***************************************************************************)
(* The handlers from the point where Lot.findOne has produced a document.  *)
(***************************************************************************)
Push(q, doc, entry) ==
  [q EXCEPT !.entry = entry,
            !.lot = [doc EXCEPT !.auditTrail = Append(@, entry)]]

LotsGet(q, doc) ==
  IF users[q.actor].role = "vendor" /\ doc.vendorId # q.actor
    THEN Respond(q, 403, "Access denied", {})
    ELSE Respond(q, 200, "ok", {doc})

RECURSIVE FindTokenLast(_, _)
FindTokenLast(qrTokens, token) ==
  IF qrTokens = << >> THEN {}
  ELSE IF qrTokens[Len(qrTokens)].token = token THEN {qrTokens[Len(qrTokens)]}
  ELSE FindTokenLast(SubSeq(qrTokens, 1, Len(qrTokens) - 1), token)

RECURSIVE FindToken(_, _)
FindToken(qrTokens, token) ==
  IF qrTokens = << >> THEN {}
  ELSE IF Head(qrTokens).token = token THEN {Head(qrTokens)}
  ELSE FindToken(Tail(qrTokens), token)

Expired(date, expiresAt) == date > expiresAt

TokenCheck(qrTokens, token, date) ==
  LET found == FindToken(qrTokens, token) IN
  IF found = {} THEN "Invalid QR token"
  ELSE IF Expired(date, (CHOOSE t \in found : TRUE).expiresAt) THEN "QR token has expired"
  ELSE "ok"

EphemeralGetLogged(q, doc) ==
  IF q.token # Undef /\ TokenCheck(doc.qrTokens, q.token, now) = "ok"
    THEN [Push(q, doc, [timestamp |-> now, actorId |-> q.actor, action |-> "qr_validated",
                        metadata |-> [qrToken |-> q.token]])
            EXCEPT !.pc = "saveLot"]
    ELSE Respond(q, 401, "Invalid QR token", {})

EphemeralGetAnyLot(q, doc) ==
  IF q.token # Undef
    THEN IF \E l \in DOMAIN lots : TokenCheck(lots[l].qrTokens, q.token, now) = "ok"
           THEN Respond(q, 200, "Lot retrieved successfully", {doc})
           ELSE Respond(q, 401, TokenCheck(doc.qrTokens, q.token, now), {})
  ELSE IF users[q.actor].role = "vendor" /\ doc.vendorId # q.actor
    THEN Respond(q, 403, "Access denied", {})
  ELSE Respond(q, 200, "Lot retrieved successfully", {doc})

EphemeralGet(q, doc) ==
  IF q.token # Undef
    THEN LET check == TokenCheck(doc.qrTokens, q.token, now) IN
         IF check # "ok"
           THEN Respond(q, 401, check, {})
           ELSE Respond(q, 200, "Lot retrieved successfully", {doc})
  ELSE IF users[q.actor].role = "vendor" /\ doc.vendorId # q.actor
    THEN Respond(q, 403, "Access denied", {})
  ELSE Respond(q, 200, "Lot retrieved successfully", {doc})

StatusEntryAfterAssign(q, doc) ==
  [timestamp |-> now, actorId |-> q.actor, action |-> "status_updated",
   metadata |-> [previousStatus |-> q.body.status, newStatus |-> q.body.status,
                 notes |-> q.body.notes, sampleCheck |-> q.body.sampleCheck]]

StatusEntry(q, doc) ==
  [timestamp |-> now, actorId |-> q.actor, action |-> "status_updated",
   metadata |-> [previousStatus |-> doc.status, newStatus |-> q.body.status,
                 notes |-> q.body.notes, sampleCheck |-> q.body.sampleCheck]]

StatusLoadedTerminal(q, doc) ==
  IF doc.status = "rejected"
    THEN Respond(q, 400, "Invalid status", {})
    ELSE LET pushed == Push(q, doc, StatusEntry(q, doc)) IN
         [pushed EXCEPT !.lot.status = q.body.status, !.pc = "saveLot"]

StatusLoaded(q, doc) ==
  LET pushed == Push(q, doc, StatusEntry(q, doc)) IN
  [pushed EXCEPT !.lot.status = q.body.status, !.pc = "saveLot"]

InstallEntry(q) ==
  [timestamp |-> now, actorId |-> q.actor, action |-> "installation_recorded",
   metadata |-> [location |-> q.body.location, section |-> q.body.section,
                 notes |-> q.body.notes]]

InstallLoadedAccepts(q, doc) ==
  [Push(q, doc, InstallEntry(q)) EXCEPT !.lot.status = "accepted", !.pc = "saveLot"]

InstallLoaded(q, doc) == [Push(q, doc, InstallEntry(q)) EXCEPT !.pc = "saveLot"]

InspectionEntry(q) ==
  [timestamp |-> now, actorId |-> q.actor, action |-> "inspection_recorded",
   metadata |-> [condition |-> q.body.condition, notes |-> q.body.notes]]

InspectionLoaded(q, doc) == [Push(q, doc, InspectionEntry(q)) EXCEPT !.pc = "saveLot"]

generateReplacementRequestId == now

ReplacementLoaded(q, doc) ==
  [q EXCEPT !.lot = doc,
            !.reqDoc = [id |-> generateReplacementRequestId, lotId |-> doc.id,
                        requestedBy |-> q.actor,
                        requestedByRole |-> users[q.actor].role,
                        reason |-> q.body.reason, description |-> q.body.description,
                        priority |-> Priority(q.body), status |-> "pending"],
            !.pc = "saveReq"]

GenerateQrLoadedAnyVendor(q, doc, uuid) ==
  [q EXCEPT !.lot = doc,
            !.tokenDoc = [token |-> uuid, generatedAt |-> 0,
                          expiresAt |-> now + TokenTTL, generatedBy |-> q.actor],
            !.pc = "render"]

GenerateQrLoaded(q, doc, uuid) ==
  IF doc.vendorId # q.actor
    THEN Respond(q, 403, "Access denied. You can only generate QR codes for your own lots.", {})
    ELSE [q EXCEPT !.lot = doc,
                   !.tokenDoc = [token |-> uuid, generatedAt |-> 0,
                                 expiresAt |-> now + TokenTTL, generatedBy |-> q.actor],
                   !.pc = "render"]

QrGenerateLoaded(q, doc) == [q EXCEPT !.lot = doc, !.pc = "render"]

LotsQr(q, doc) == Respond(q, 200, "ok", {doc})

QrScanLoaded(q, doc) == Respond(q, 200, "QR code scanned successfully", {doc})

NotFoundMessage(h) ==
  IF h = "qr.scan" THEN "Record not found in database" ELSE "Lot not found"

Loaded(q, found, uuid) ==
  IF found = {} THEN Respond(q, 404, NotFoundMessage(q.handler), {})
  ELSE LET doc == CHOOSE d \in found : TRUE IN
    CASE q.handler = "lots.get" -> LotsGet(q, doc)
      [] q.handler = "ephemeral.get" -> EphemeralGet(q, doc)
      [] q.handler = "lots.status" -> StatusLoaded(q, doc)
      [] q.handler = "workflow.install" -> InstallLoaded(q, doc)
      [] q.handler = "workflow.inspection" -> InspectionLoaded(q, doc)
      [] q.handler = "workflow.replacement" -> ReplacementLoaded(q, doc)
      [] q.handler = "ephemeral.generateQr" -> GenerateQrLoaded(q, doc, uuid)
      [] q.handler = "qr.generate" -> QrGenerateLoaded(q, doc)
      [] q.handler = "lots.qr" -> LotsQr(q, doc)
      [] q.handler = "qr.scan" -> QrScanLoaded(q, doc)

(***************************************************************************)
(* generate-qr after QRCode.toDataURL: the token and the audit entry are   *)
(* pushed on the in-memory lot.  The rendered image goes to the response   *)
(* only.                                                                   *)
(***************************************************************************)
QrEntry(q) ==
  [timestamp |-> now, actorId |-> q.actor, action |-> "qr_generated",
   metadata |-> [qrToken |-> q.tokenDoc.token, expiresAt |-> q.tokenDoc.expiresAt]]

QrCodeDataURL == "data:image/png;base64"

Rendered(q) ==
  IF q.handler = "qr.generate"
    THEN [q EXCEPT !.data = {QrCodeDataURL}, !.pc = "updateQr"]
    ELSE LET tokenDoc == [q.tokenDoc EXCEPT !.generatedAt = now]
             pushed == Push(q, q.lot, QrEntry(q)) IN
         [pushed EXCEPT !.tokenDoc = tokenDoc,
                        !.lot.qrTokens = Append(@, tokenDoc),
                        !.pc = "saveLot"]

(***************************************************************************)
(* routes/qr.ts after QRCode.toDataURL: Lot.findOneAndUpdate sets qrCode   *)
(* of the stored lot to the rendered image.                                *)
(***************************************************************************)
QrUpdate(stored, q) == [stored EXCEPT !.qrCode = CHOOSE image \in q.data : TRUE]

(***************************************************************************)
(* replacementRequest.save(): schema validation, then the unique index on  *)
(* id; on success the handler pushes the audit entry.                      *)
(***************************************************************************)
RequestValid(reqDoc) ==
  /\ reqDoc.requestedByRole \in RequestedByRoles
  /\ reqDoc.reason \in Reasons
  /\ reqDoc.priority \in Priorities

DuplicateId(reqDoc) == \E x \in requests : x.id = reqDoc.id

ReplacementEntry(q) ==
  [timestamp |-> now, actorId |-> q.actor, action |-> "replacement_requested",
   metadata |-> [requestId |-> q.reqDoc.id, reason |-> q.body.reason,
                 description |-> q.body.description, priority |-> Priority(q.body)]]

RequestSaved(q) == [Push(q, q.lot, ReplacementEntry(q)) EXCEPT !.pc = "saveLot"]

(***************************************************************************)
(* lot.save(): schema validation, then the modified paths are written: the *)
(* pushed audit entry, the pushed token if any, and status when the        *)
(* handler assigned it a value other than the loaded one.                  *)
(***************************************************************************)
LotValid(doc) == doc.status \in Statuses

LotSaveWhole(stored, q) == q.lot

LotSaveUnshift(stored, q) ==
  [stored EXCEPT
     !.auditTrail = << q.entry >> \o @,
     !.qrTokens = IF q.tokenDoc = NoToken THEN @ ELSE Append(@, q.tokenDoc),
     !.status = IF q.lot.status # q.loadedStatus THEN q.lot.status ELSE @]

LotSave(stored, q) ==
  [stored EXCEPT
     !.auditTrail = Append(@, q.entry),
     !.qrTokens = IF q.tokenDoc = NoToken THEN @ ELSE Append(@, q.tokenDoc),
     !.status = IF q.lot.status # q.loadedStatus THEN q.lot.status ELSE @]

(***************************************************************************)
(* The mirrored entry pushed on the acting user's history.                 *)
(***************************************************************************)
HistoryAction(h) ==
  CASE h = "lots.status" -> "update_lot_status"
    [] h = "workflow.install" -> "install_lot"
    [] h = "workflow.inspection" -> "inspect_lot"
    [] h = "workflow.replacement" -> "request_replacement"
    [] h = "ephemeral.generateQr" -> "generate_qr"

HistoryMetadata(q) ==
  CASE q.handler = "lots.status" ->
         [previousStatus |-> q.lot.status, newStatus |-> q.body.status,
          notes |-> q.body.notes, sampleCheck |-> q.body.sampleCheck]
    [] q.handler = "ephemeral.generateQr" -> q.entry.metadata
    [] q.handler = "workflow.install" -> q.entry.metadata
    [] q.handler = "workflow.inspection" -> q.entry.metadata
    [] q.handler = "workflow.replacement" -> q.entry.metadata

HistoryEntry(q) ==
  [timestamp |-> now, action |-> HistoryAction(q.handler), targetType |-> "lot",
   targetId |-> q.lot.id, metadata |-> HistoryMetadata(q)]

SuccessCode(h) == IF h = "workflow.replacement" THEN 201 ELSE 200

SuccessData(q) ==
  CASE q.handler = "workflow.replacement" -> {q.reqDoc}
    [] q.handler = "ephemeral.generateQr" -> {q.tokenDoc}
    [] OTHER -> {q.lot}

Succeed(q) == Respond(q, SuccessCode(q.handler), "success", SuccessData(q))

ServerError(q) == Respond(q, 500, "Server error", {})

(***************************************************************************)
(* Initial state: the fixture, no request in flight.                       *)
(***************************************************************************)
Init ==
  /\ lots = [l \in SeededLots |-> NewLot(l)]
  /\ users = [u \in UserIds |-> NewUser(u)]
  /\ requests = {}
  /\ now = 0
  /\ reqs = [r \in Slots |-> IdleReq]
  /\ okCount = [l \in LotIds |-> 0]
  /\ nOps = 0
  /\ nTicks = 0
  /\ nFaults = 0

(***************************************************************************)
(* The state in which the vendor of LOT001 has issued one token at time 0  *)
(* and the response has been sent: the lot holds the token and its         *)
(* qr_generated entry, the vendor's history holds the mirrored entry.      *)
(***************************************************************************)
IssuedToken ==
  [token |-> "a1b2c3d4", generatedAt |-> 0, expiresAt |-> TokenTTL, generatedBy |-> "V1"]

IssuedEntry ==
  [timestamp |-> 0, actorId |-> "V1", action |-> "qr_generated",
   metadata |-> [qrToken |-> IssuedToken.token, expiresAt |-> IssuedToken.expiresAt]]

IssuedHistory ==
  [timestamp |-> 0, action |-> "generate_qr", targetType |-> "lot", targetId |-> "LOT001",
   metadata |-> IssuedEntry.metadata]

InitIssued ==
  /\ lots = [l \in SeededLots |->
               [NewLot(l) EXCEPT !.qrTokens = << IssuedToken >>,
                                 !.auditTrail = << IssuedEntry >>]]
  /\ users = [u \in UserIds |->
                IF u = "V1" THEN [NewUser(u) EXCEPT !.history = << IssuedHistory >>]
                            ELSE NewUser(u)]
  /\ requests = {}
  /\ now = 0
  /\ reqs = [r \in Slots |-> IdleReq]
  /\ okCount = [l \in LotIds |-> IF l = "LOT001" THEN 1 ELSE 0]
  /\ nOps = 0
  /\ nTicks = 0
  /\ nFaults = 0

(***************************************************************************)
(* As InitIssued, one millisecond after the issuance, with a second lot,   *)
(* LOT002 of vendor V2, stored and holding no token.                       *)
(***************************************************************************)
InitLater ==
  /\ lots = [l \in LotIds |->
               IF l = "LOT001"
                 THEN [NewLot(l) EXCEPT !.qrTokens = << IssuedToken >>,
                                        !.auditTrail = << IssuedEntry >>]
                 ELSE NewLot(l)]
  /\ users = [u \in UserIds |->
                IF u = "V1" THEN [NewUser(u) EXCEPT !.history = << IssuedHistory >>]
                            ELSE NewUser(u)]
  /\ requests = {}
  /\ now = 1
  /\ reqs = [r \in Slots |-> IdleReq]
  /\ okCount = [l \in LotIds |-> IF l = "LOT001" THEN 1 ELSE 0]
  /\ nOps = 0
  /\ nTicks = 0
  /\ nFaults = 0

Quiet == \A r \in Slots : reqs[r].pc \in {"idle", "done"}

(***************************************************************************)
(* A request arrives and runs up to its first database read.               *)
(***************************************************************************)
Arrive(r, mounts, actors, lotIds) ==
  /\ nOps < MaxOps
  /\ reqs[r].pc \in {"idle", "done"}
  /\ \E actor \in actors, lotId \in lotIds,
        ep \in {e \in Endpoints : Route(mounts, e) # "notFound"} :
       \E body \in BodiesFor(ep), token \in QueriesFor(ep) :
         reqs' = [reqs EXCEPT
                    ![r] = Enter(NewRequest(Route(mounts, ep), actor, lotId, body, token))]
  /\ nOps' = nOps + 1
  /\ UNCHANGED <<lots, users, requests, now, okCount, nTicks, nFaults>>

Begin(r, mounts) == Arrive(r, mounts, Callers, LotIds)

(***************************************************************************)
(* An awaited call throws: the catch block answers 500.                    *)
(***************************************************************************)
Throw(r) ==
  /\ reqs[r].pc \in {"findLot", "findPart", "render", "updateQr",
                     "saveReq", "saveLot", "findUser", "saveUser"}
  /\ nFaults < MaxFaults
  /\ reqs' = [reqs EXCEPT
                ![r] = ServerError([reqs[r] EXCEPT !.faulted = TRUE, !.faultAt = reqs[r].pc])]
  /\ nFaults' = nFaults + 1
  /\ UNCHANGED <<lots, users, requests, now, okCount, nOps, nTicks>>

FindLotDone(r) ==
  /\ reqs[r].pc = "findLot"
  /\ \E uuid \in (IF reqs[r].handler = "ephemeral.generateQr" THEN TokenVals ELSE {Undef}) :
       reqs' = [reqs EXCEPT
                  ![r] = Loaded([reqs[r] EXCEPT
                                   !.checkedAt = now,
                                   !.loadedStatus =
                                      IF reqs[r].lotId \in DOMAIN lots
                                        THEN lots[reqs[r].lotId].status ELSE "none"],
                                FindLot(lots, reqs[r].lotId), uuid)]
  /\ UNCHANGED <<lots, users, requests, now, okCount, nOps, nTicks, nFaults>>

RenderDone(r) ==
  /\ reqs[r].pc = "render"
  /\ reqs' = [reqs EXCEPT ![r] = Rendered(reqs[r])]
  /\ UNCHANGED <<lots, users, requests, now, okCount, nOps, nTicks, nFaults>>

SaveReqDone(r) ==
  /\ reqs[r].pc = "saveReq"
  /\ IF RequestValid(reqs[r].reqDoc) /\ ~DuplicateId(reqs[r].reqDoc)
       THEN /\ requests' = requests \cup {reqs[r].reqDoc}
            /\ reqs' = [reqs EXCEPT ![r] = RequestSaved(reqs[r])]
       ELSE /\ requests' = requests
            /\ reqs' = [reqs EXCEPT ![r] = ServerError(reqs[r])]
  /\ UNCHANGED <<lots, users, now, okCount, nOps, nTicks, nFaults>>

SaveLotDone(r) ==
  /\ reqs[r].pc = "saveLot"
  /\ IF LotValid(reqs[r].lot)
       THEN /\ lots' = [lots EXCEPT ![reqs[r].lotId] = LotSave(@, reqs[r])]
            /\ reqs' = [reqs EXCEPT ![r].pc = "findUser"]
       ELSE /\ lots' = lots
            /\ reqs' = [reqs EXCEPT ![r] = ServerError(reqs[r])]
  /\ UNCHANGED <<users, requests, now, okCount, nOps, nTicks, nFaults>>

FindUserDone(r) ==
  /\ reqs[r].pc = "findUser"
  /\ IF FindUser(users, reqs[r].actor) # {}
       THEN /\ reqs' = [reqs EXCEPT ![r].hist = HistoryEntry(reqs[r]), ![r].pc = "saveUser"]
            /\ okCount' = okCount
       ELSE /\ reqs' = [reqs EXCEPT ![r] = Succeed(reqs[r])]
            /\ okCount' = [okCount EXCEPT ![reqs[r].lotId] = @ + 1]
  /\ UNCHANGED <<lots, users, requests, now, nOps, nTicks, nFaults>>

SaveUserDone(r) ==
  /\ reqs[r].pc = "saveUser"
  /\ users' = [users EXCEPT ![reqs[r].actor].history = Append(@, reqs[r].hist)]
  /\ reqs' = [reqs EXCEPT ![r] = Succeed(reqs[r])]
  /\ okCount' = [okCount EXCEPT ![reqs[r].lotId] = @ + 1]
  /\ UNCHANGED <<lots, requests, now, nOps, nTicks, nFaults>>

(* Part.findOne: the database holds no part. *)
FindPartDone(r) ==
  /\ reqs[r].pc = "findPart"
  /\ reqs' = [reqs EXCEPT
                ![r] = Respond(reqs[r], 404,
                               IF reqs[r].handler = "qr.scan"
                                 THEN "Record not found in database"
                                 ELSE "Part not found", {})]
  /\ UNCHANGED <<lots, users, requests, now, okCount, nOps, nTicks, nFaults>>

UpdateQrDone(r) ==
  /\ reqs[r].pc = "updateQr"
  /\ lots' = [l \in DOMAIN lots |->
                IF l = reqs[r].lot.id THEN QrUpdate(lots[l], reqs[r]) ELSE lots[l]]
  /\ reqs' = [reqs EXCEPT
                ![r] = Respond(reqs[r], 200, "QR code generated successfully", reqs[r].data)]
  /\ UNCHANGED <<users, requests, now, okCount, nOps, nTicks, nFaults>>

(***************************************************************************)
(* The clock advances by the validity window, so that a token is observed  *)
(* at its issuance instant, at its exact expiry instant and after it.      *)
(***************************************************************************)
TickSteps == {TokenTTL}

Tick ==
  /\ nTicks < MaxTicks
  /\ \E d \in TickSteps : now' = now + d
  /\ nTicks' = nTicks + 1
  /\ UNCHANGED <<lots, users, requests, reqs, okCount, nOps, nFaults>>

Step(r) ==
  \/ FindLotDone(r)
  \/ RenderDone(r)
  \/ SaveReqDone(r)
  \/ SaveLotDone(r)
  \/ FindUserDone(r)
  \/ SaveUserDone(r)

(***************************************************************************)
(* Spec: requests arrive one after the other at the application, the clock *)
(* is observed between requests, and the database answers every call.      *)
(* SpecRouter: in addition the ephemeral-QR router is exercised on its     *)
(* own, without the routers mounted before it.                             *)
(* SpecFault: as Spec, and an awaited call may throw.                      *)
(* SpecQr: as Spec, and requests also arrive at the router of /api/qr.     *)
(* SpecConcTimed: as SpecConc, and the clock may advance between any two   *)
(* awaits.                                                                 *)
(* SpecIssued: a token has been issued; requests arrive one after the      *)
(* other at the ephemeral-QR router, in either slot.                       *)
(* SpecLater: two lots are stored, one of them holding a token issued a    *)
(* millisecond ago; the two vendors and the inspector send requests to the *)
(* ephemeral-QR router one after the other.                                *)
(* SpecConc: two writing requests for the stored lot, by its vendor, the   *)
(* depot clerk or the track worker, may be in flight at once, and their    *)
(* awaits resolve in any order.  A request that is answered before its     *)
(* first await overlaps with nothing and is left to Spec.                  *)
(***************************************************************************)
BeginApp == Quiet /\ Begin("r1", AppMounts)

BeginRouter == Quiet /\ Begin("r1", RouterMounts)

TickQuiet == Quiet /\ Tick

Next ==
  \/ BeginApp
  \/ \E r \in Slots : Step(r)
  \/ TickQuiet

NextRouter ==
  \/ BeginApp
  \/ BeginRouter
  \/ \E r \in Slots : Step(r)
  \/ TickQuiet

NextFault ==
  \/ Next
  \/ \E r \in Slots : Throw(r)

BeginQr == Quiet /\ Begin("r1", QrMounts)

StepQr(r) ==
  \/ FindPartDone(r)
  \/ UpdateQrDone(r)

NextQr ==
  \/ Next
  \/ BeginQr
  \/ \E r \in Slots : StepQr(r)

BeginRead(r) == Quiet /\ Begin(r, ReadMounts)

NextRead ==
  \/ \E r \in Slots : BeginRead(r)
  \/ \E r \in Slots : FindLotDone(r)
  \/ \E r \in Slots : FindPartDone(r)

BeginIssued(r) == Quiet /\ Begin(r, RouterMounts)

StepToken(r) ==
  \/ FindLotDone(r)
  \/ RenderDone(r)
  \/ SaveLotDone(r)
  \/ FindUserDone(r)
  \/ SaveUserDone(r)

NextIssued ==
  \/ \E r \in Slots : BeginIssued(r)
  \/ \E r \in Slots : StepToken(r)
  \/ TickQuiet

Holders == {"V1", "V2", "I1"}

BeginLater(r) == Quiet /\ Arrive(r, RouterMounts, Holders, LotIds)

NextLater ==
  \/ \E r \in Slots : BeginLater(r)
  \/ \E r \in Slots : StepToken(r)
  \/ TickQuiet

WriteMounts == SelectSeq(AppMounts, LAMBDA route : route.method # "GET")

Racers == {"V1", "D1", "T1"}

BeginConc(r) ==
  /\ Arrive(r, WriteMounts, Racers, SeededLots)
  /\ reqs'[r].pc # "done"

NextConc ==
  \/ \E r \in Slots : BeginConc(r)
  \/ \E r \in Slots : Step(r)

NextConcTimed ==
  \/ NextConc
  \/ Tick

Spec == Init /\ [][Next]_vars

SpecFault == Init /\ [][NextFault]_vars

SpecRouter == Init /\ [][NextRouter]_vars

SpecQr == Init /\ [][NextQr]_vars

SpecConc == Init /\ [][NextConc]_vars

SpecIssued == InitIssued /\ [][NextIssued]_vars

SpecConcTimed == Init /\ [][NextConcTimed]_vars

SpecLater == InitLater /\ [][NextLater]_vars

SpecRead == InitIssued /\ [][NextRead]_vars

(***************************************************************************)
(* Vocabulary of the properties.                                           *)
(***************************************************************************)
Done(q) == q.pc = "done"

Arrives(r) == nOps' = nOps + 1 /\ reqs'[r] # reqs[r]

LastEntry(l) == lots[l].auditTrail[Len(lots[l].auditTrail)]

LastHistory(u) == users[u].history[Len(users[u].history)]

TokensOf(l, value) ==
  { lots[l].qrTokens[i] : i \in { j \in 1..Len(lots[l].qrTokens) : lots[l].qrTokens[j].token = value } }

ClosedStatusSet == {"pending", "verified", "rejected", "accepted", "held"}

ClaimedRoles(h) ==
  CASE h = "lots.status" -> {"depot-staff"}
    [] h = "workflow.install" -> {"track-worker"}
    [] h = "workflow.inspection" -> {"inspector"}
    [] h = "workflow.replacement" -> {"track-worker", "inspector"}

RoleGated == {"lots.status", "workflow.install", "workflow.inspection", "workflow.replacement"}

ReadHandlers == {"lots.get", "ephemeral.get"}

(***************************************************************************)
(* C1: once no request is in flight, the length of every lot's audit trail *)
(* equals the number of operations on that lot that reported success to    *)
(* the caller.                                                             *)
(***************************************************************************)
C1_TrailLengthIsSuccessCount ==
  Quiet => \A l \in DOMAIN lots : Len(lots[l].auditTrail) = okCount[l]

(***************************************************************************)
(* C2: validation of a token that the lot holds accepts it at every time   *)
(* from issuance up to, but excluding, its expiry, and rejects it as       *)
(* expired from the instant of expiry on; a value the lot does not hold is *)
(* rejected as not found.                                                  *)
(***************************************************************************)
C2_ValidBeforeExpiryExpiredFromExpiry ==
  \A r \in Slots :
    LET q == reqs[r] IN
    (Done(q) /\ q.handler = "ephemeral.get" /\ q.token # Undef /\ q.lotId \in DOMAIN lots)
      => LET held == TokensOf(q.lotId, q.token) IN
         /\ held = {} => (q.code = 401 /\ q.message = "Invalid QR token")
         /\ \A t \in held :
              Cardinality(held) = 1 =>
                /\ (t.expiresAt - TokenTTL <= q.checkedAt /\ q.checkedAt < t.expiresAt)
                     => q.code = 200
                /\ q.checkedAt >= t.expiresAt
                     => (q.code = 401 /\ q.message = "QR token has expired")

(***************************************************************************)
(* C3: a GET of a lot that presents a token which is expired or is not in  *)
(* the lot's token set is answered with a credential failure and never     *)
(* with the lot record.                                                    *)
(***************************************************************************)
C3_BadTokenNeverReadsLot ==
  \A r \in Slots :
    LET q == reqs[r] IN
    (/\ Done(q) /\ q.handler \in ReadHandlers /\ q.token # Undef
     /\ q.lotId \in DOMAIN lots
     /\ \A t \in TokensOf(q.lotId, q.token) : q.checkedAt >= t.expiresAt)
      => (q.code = 401 /\ q.data = {})

(***************************************************************************)
(* C4: an authenticated actor presenting a token that the lot holds and    *)
(* that has not expired is given the lot record whatever the role and the  *)
(* ownership; a vendor who does not own the lot is given it only then.     *)
(***************************************************************************)
C4_ValidTokenGrantsRead ==
  \A r \in Slots :
    LET q == reqs[r] IN
    (Done(q) /\ q.handler \in ReadHandlers /\ q.actor \in UserIds /\ q.lotId \in DOMAIN lots)
      => LET valid == \E t \in TokensOf(q.lotId, q.token) : q.checkedAt < t.expiresAt IN
         /\ valid => (q.code = 200 /\ q.data = {lots[q.lotId]})
         /\ (users[q.actor].role = "vendor" /\ lots[q.lotId].vendorId # q.actor /\ q.data # {})
              => valid

(***************************************************************************)
(* C5: a request to a role-gated operation by an actor whose role is       *)
(* outside the operation's allowed set is answered 403 at once, whatever   *)
(* the lot's status and whether or not the lot exists, and the lots, the   *)
(* user histories and the replacement requests are left unchanged.         *)
(***************************************************************************)
C5_OutsideRoleForbidden ==
  [][\A r \in Slots :
       (/\ Arrives(r)
        /\ reqs'[r].handler \in RoleGated
        /\ reqs'[r].actor \in UserIds
        /\ users[reqs'[r].actor].role \notin ClaimedRoles(reqs'[r].handler))
         => (/\ Done(reqs'[r]) /\ reqs'[r].code = 403
             /\ UNCHANGED <<lots, users, requests>>)]_vars

C5_Witness ==
  \E r \in Slots :
    /\ Done(reqs[r]) /\ reqs[r].code = 403
    /\ reqs[r].handler = "lots.status" /\ reqs[r].actor = "V1"
    /\ reqs[r].lotId = "LOT001" /\ lots["LOT001"].status = "accepted"

(***************************************************************************)
(* C6: after a successful depot-staff transition the lot's status is the   *)
(* requested one and the last audit entry is tagged status_updated, with   *)
(* previousStatus the status the lot had before the operation, newStatus   *)
(* the requested status, and the supplied notes and sample-check result.   *)
(***************************************************************************)
C6_TransitionRecorded ==
  \A r \in Slots :
    LET q == reqs[r] IN
    (Done(q) /\ q.handler = "lots.status" /\ Success(q))
      => /\ lots[q.lotId].status = q.body.status
         /\ Len(lots[q.lotId].auditTrail) = q.preTrailLen + 1
         /\ LastEntry(q.lotId).action = "status_updated"
         /\ LastEntry(q.lotId).actorId = q.actor
         /\ LastEntry(q.lotId).metadata.previousStatus = q.preStatus
         /\ LastEntry(q.lotId).metadata.newStatus = q.body.status
         /\ LastEntry(q.lotId).metadata.notes = q.body.notes
         /\ LastEntry(q.lotId).metadata.sampleCheck = q.body.sampleCheck

C6_Witness ==
  \E r \in Slots :
    /\ Done(reqs[r]) /\ reqs[r].handler = "lots.status" /\ Success(reqs[r])
    /\ reqs[r].preStatus = "held" /\ reqs[r].body.status = "accepted"
    /\ reqs[r].body.notes = "sample ok"

(***************************************************************************)
(* C7: after a successful transition the actor's history has gained        *)
(* exactly one entry, update_lot_status on the lot, whose previousStatus   *)
(* and newStatus equal those of the status_updated audit entry.            *)
(***************************************************************************)
C7_HistoryMirrorsAuditEntry ==
  \A r \in Slots :
    LET q == reqs[r] IN
    (Done(q) /\ q.handler = "lots.status" /\ Success(q))
      => /\ Len(users[q.actor].history) = q.preHistLen + 1
         /\ LastHistory(q.actor).action = "update_lot_status"
         /\ LastHistory(q.actor).targetType = "lot"
         /\ LastHistory(q.actor).targetId = q.lotId
         /\ LastHistory(q.actor).metadata.previousStatus
              = LastEntry(q.lotId).metadata.previousStatus
         /\ LastHistory(q.actor).metadata.newStatus
              = LastEntry(q.lotId).metadata.newStatus

(***************************************************************************)
(* C8: a depot-staff transition of an existing lot to any of the five      *)
(* statuses succeeds from every current status; none is refused because   *)
(* of the pair of current and requested status.                            *)
(***************************************************************************)
C8_EveryPairAllowed ==
  \A r \in Slots :
    LET q == reqs[r] IN
    (/\ Done(q) /\ q.handler = "lots.status"
     /\ q.actor \in UserIds /\ users[q.actor].role = "depot-staff"
     /\ q.body.status \in ClosedStatusSet
     /\ q.lotId \in DOMAIN lots)
      => (Success(q) /\ lots[q.lotId].status = q.body.status)

C8_Witness ==
  \E r \in Slots :
    /\ Done(reqs[r]) /\ reqs[r].handler = "lots.status" /\ Success(reqs[r])
    /\ reqs[r].preStatus = "rejected" /\ reqs[r].body.status = "accepted"
    /\ lots[reqs[r].lotId].status = "accepted"

(***************************************************************************)
(* C9: a depot-staff transition to a status outside the closed set is      *)
(* answered 400 Invalid status and leaves the lots and the user histories  *)
(* unchanged; the status of every lot is always in the closed set.         *)
(***************************************************************************)
C9_InvalidStatusRejected ==
  [][/\ \A l \in DOMAIN lots' : lots'[l].status \in ClosedStatusSet
     /\ \A r \in Slots :
          (/\ Arrives(r)
           /\ reqs'[r].handler = "lots.status"
           /\ reqs'[r].actor \in UserIds
           /\ users[reqs'[r].actor].role = "depot-staff"
           /\ reqs'[r].body.status \notin ClosedStatusSet)
            => (/\ Done(reqs'[r]) /\ reqs'[r].code = 400
                /\ reqs'[r].message = "Invalid status"
                /\ UNCHANGED <<lots, users>>)]_vars

C9_Witness ==
  \E r \in Slots :
    /\ Done(reqs[r]) /\ reqs[r].handler = "lots.status" /\ reqs[r].code = 400
    /\ reqs[r].body.status = "archived"
    /\ reqs[r].lotId = "LOT001" /\ lots["LOT001"].status = "held"

(***************************************************************************)
(* C10: an inspection by an inspector whose condition is absent or outside *)
(* good, worn, replace is answered 400 and appends nothing to any audit    *)
(* trail or history, for every lot and lot status.                         *)
(***************************************************************************)
C10_InvalidConditionRejected ==
  [][\A r \in Slots :
       (/\ Arrives(r)
        /\ reqs'[r].handler = "workflow.inspection"
        /\ reqs'[r].actor \in UserIds
        /\ users[reqs'[r].actor].role = "inspector"
        /\ reqs'[r].body.condition \notin {"good", "worn", "replace"})
         => (/\ Done(reqs'[r]) /\ reqs'[r].code = 400
             /\ reqs'[r].message = "Valid condition is required (good, worn, replace)"
             /\ UNCHANGED <<lots, users>>)]_vars

C10_Witness ==
  \E r \in Slots :
    /\ Done(reqs[r]) /\ reqs[r].handler = "workflow.inspection" /\ reqs[r].code = 400
    /\ reqs[r].body.condition = Undef
    /\ reqs[r].lotId = "LOT001" /\ lots["LOT001"].status = "rejected"

(***************************************************************************)
(* C11: a replacement request by a track-worker or an inspector whose      *)
(* reason or description is absent is answered 400 (missing fields) at     *)
(* once; no replacement request is created and no lot and no user history  *)
(* changes.                                                                *)
(***************************************************************************)
C11_MissingFieldsRejected ==
  [][\A r \in Slots :
       (/\ Arrives(r)
        /\ reqs'[r].handler = "workflow.replacement"
        /\ reqs'[r].actor \in UserIds
        /\ users[reqs'[r].actor].role \in {"track-worker", "inspector"}
        /\ (reqs'[r].body.reason = Undef \/ reqs'[r].body.description = Undef))
         => (/\ Done(reqs'[r]) /\ reqs'[r].code = 400
             /\ reqs'[r].message = "Reason and description are required"
             /\ UNCHANGED <<lots, users, requests>>)]_vars

C11_Witness ==
  \E r \in Slots :
    /\ Done(reqs[r]) /\ reqs[r].handler = "workflow.replacement" /\ reqs[r].code = 400
    /\ reqs[r].actor = "I1" /\ reqs[r].lotId = "LOT001"
    /\ reqs[r].body.reason = "defective" /\ reqs[r].body.description = Undef
    /\ requests = {}

(***************************************************************************)
(* C12: once no request is in flight, every stored replacement request is  *)
(* pending, names an existing lot and is referenced by exactly one         *)
(* replacement_requested entry of that lot's audit trail, and every        *)
(* replacement_requested entry references exactly one stored request.      *)
(***************************************************************************)
ReplacementEntries(l, id) ==
  { i \in 1..Len(lots[l].auditTrail) :
      /\ lots[l].auditTrail[i].action = "replacement_requested"
      /\ lots[l].auditTrail[i].metadata.requestId = id }

C12_RequestsMatchEntries ==
  Quiet =>
    /\ \A x \in requests :
         /\ x.status = "pending"
         /\ x.lotId \in DOMAIN lots
         /\ Cardinality(ReplacementEntries(x.lotId, x.id)) = 1
    /\ \A l \in DOMAIN lots : \A i \in 1..Len(lots[l].auditTrail) :
         lots[l].auditTrail[i].action = "replacement_requested"
           => Cardinality({ x \in requests :
                              /\ x.id = lots[l].auditTrail[i].metadata.requestId
                              /\ x.lotId = l }) = 1

(***************************************************************************)
(* C13: a token is added to a lot only by an issuance of the vendor who    *)
(* owns the lot; an issuance for an existing lot by any other actor,       *)
(* another vendor or a non-vendor, ends with 403 and changes no lot, no    *)
(* user history and no replacement request.                                *)
(***************************************************************************)
Owner(actor, l) == users[actor].role = "vendor" /\ lots[l].vendorId = actor

C13_OnlyOwnerIssues ==
  [][/\ \A l \in DOMAIN lots :
          lots'[l].qrTokens # lots[l].qrTokens
            => \E r \in Slots :
                 /\ reqs[r].pc = "saveLot" /\ reqs'[r].pc # "saveLot"
                 /\ reqs[r].handler = "ephemeral.generateQr" /\ reqs[r].lotId = l
                 /\ Owner(reqs[r].actor, l)
     /\ \A r \in Slots :
          (/\ reqs'[r] # reqs[r] /\ Done(reqs'[r])
           /\ reqs'[r].handler = "ephemeral.generateQr"
           /\ reqs'[r].actor \in UserIds /\ reqs'[r].lotId \in DOMAIN lots
           /\ ~Owner(reqs'[r].actor, reqs'[r].lotId))
            => (reqs'[r].code = 403 /\ UNCHANGED <<lots, users, requests>>)]_vars

C13_Witness ==
  \E r \in Slots :
    /\ Done(reqs[r]) /\ reqs[r].handler = "ephemeral.generateQr" /\ reqs[r].code = 403
    /\ reqs[r].actor = "V2" /\ reqs[r].lotId = "LOT001"
    /\ Len(lots["LOT001"].qrTokens) = 1
    /\ lots["LOT001"].qrTokens[1].generatedBy = "V1"
    /\ users["V2"].history = << >>

(***************************************************************************)
(* C14: no stored lot ever holds a rendered QR image: qrCode, unset on     *)
(* the stored lots at the start, stays unset whatever requests the server  *)
(* handles, those to /api/qr included.                                     *)
(***************************************************************************)
C14_ImageNeverPersisted ==
  \A l \in DOMAIN lots : lots[l].qrCode = Undef

(***************************************************************************)
(* C15: once no request is in flight a lot holds as many tokens as there   *)
(* were successful issuances for it, and every token it holds is judged    *)
(* valid at every instant from its issuance up to, but excluding, its own  *)
(* expiry, whatever tokens were issued after or before it.                 *)
(***************************************************************************)
RECURSIVE Issuances(_, _)
Issuances(history, l) ==
  IF history = << >> THEN 0
  ELSE (IF Head(history).action = "generate_qr" /\ Head(history).targetId = l THEN 1 ELSE 0)
       + Issuances(Tail(history), l)

RECURSIVE IssuancesBy(_, _)
IssuancesBy(actors, l) ==
  IF actors = {} THEN 0
  ELSE LET u == CHOOSE a \in actors : TRUE IN
       Issuances(users[u].history, l) + IssuancesBy(actors \ {u}, l)

InstantsOf(t) == {t.generatedAt, t.expiresAt - 1} \cup (IF now >= t.generatedAt THEN {now} ELSE {})

C15_TokensIndependent ==
  \A l \in DOMAIN lots :
    /\ Quiet => Len(lots[l].qrTokens) = IssuancesBy(UserIds, l)
    /\ \A i \in 1..Len(lots[l].qrTokens) :
         LET t == lots[l].qrTokens[i] IN
         \A date \in InstantsOf(t) :
           date < t.expiresAt => TokenCheck(lots[l].qrTokens, t.token, date) = "ok"

(***************************************************************************)
(* C16: whatever the interleaving of two handlers working on the same lot, *)
(* every operation that reported success has its audit entry in the stored *)
(* trail: the trail has at least as many entries as there were successes,  *)
(* and when both requests have succeeded two different positions of the    *)
(* trail hold their two entries.                                           *)
(***************************************************************************)
AuditAction(h) ==
  CASE h = "lots.status" -> "status_updated"
    [] h = "workflow.install" -> "installation_recorded"
    [] h = "workflow.inspection" -> "inspection_recorded"
    [] h = "workflow.replacement" -> "replacement_requested"
    [] h = "ephemeral.generateQr" -> "qr_generated"
    [] OTHER -> "none"

EntryOf(q, e) ==
  /\ e.actorId = q.actor
  /\ e.action = AuditAction(q.handler)
  /\ q.handler = "lots.status" => e.metadata.newStatus = q.body.status
  /\ q.handler = "workflow.install" => e.metadata.location = q.body.location
  /\ q.handler = "workflow.replacement" => e.metadata.reason = q.body.reason
  /\ q.handler = "ephemeral.generateQr" => \E t \in q.data : e.metadata.qrToken = t.token

Wrote(q) == Done(q) /\ Success(q) /\ AuditAction(q.handler) # "none"

C16_NoEntryLost ==
  /\ \A l \in DOMAIN lots : Len(lots[l].auditTrail) >= okCount[l]
  /\ \A r \in Slots :
       Wrote(reqs[r])
         => \E i \in 1..Len(lots[reqs[r].lotId].auditTrail) :
              EntryOf(reqs[r], lots[reqs[r].lotId].auditTrail[i])
  /\ (Wrote(reqs["r1"]) /\ Wrote(reqs["r2"]) /\ reqs["r1"].lotId = reqs["r2"].lotId)
       => LET trail == lots[reqs["r1"].lotId].auditTrail IN
          \E i, j \in 1..Len(trail) :
            i # j /\ EntryOf(reqs["r1"], trail[i]) /\ EntryOf(reqs["r2"], trail[j])

C16_Witness ==
  /\ Wrote(reqs["r1"]) /\ Wrote(reqs["r2"])
  /\ reqs["r1"].handler = "lots.status" /\ reqs["r1"].preTrailLen = 0
  /\ reqs["r1"].body.status = "accepted"
  /\ reqs["r2"].handler = "workflow.install" /\ reqs["r2"].preTrailLen = 0
  /\ reqs["r2"].lotId = reqs["r1"].lotId
  /\ lots[reqs["r1"].lotId].auditTrail[1].action = "installation_recorded"
  /\ lots[reqs["r1"].lotId].auditTrail[2].action = "status_updated"
  /\ lots[reqs["r1"].lotId].auditTrail[2].metadata.previousStatus = "pending"

(***************************************************************************)
(* C17: an operation that reported failure to the caller, a failure of a   *)
(* database call at any step of the handler included, has left the lot's   *)
(* audit trail and status as they were when the operation began.           *)
(***************************************************************************)
Failed(q) == Done(q) /\ ~Success(q)

C17_FailureLeavesLotUntouched ==
  \A r \in Slots :
    LET q == reqs[r] IN
    (Failed(q) /\ q.lotId \in DOMAIN lots)
      => /\ Len(lots[q.lotId].auditTrail) = q.preTrailLen
         /\ lots[q.lotId].status = q.preStatus

(***************************************************************************)
(* C18: a request whose lot.save() met a failure that does not recur ends  *)
(* in success, the save having been tried again; it ends in a failure only *)
(* as a conflict (409) reported after the retries.                         *)
(***************************************************************************)
C18_ConflictRetried ==
  \A r \in Slots :
    LET q == reqs[r] IN
    (Done(q) /\ q.faultAt = "saveLot") => (Success(q) \/ q.code = 409)

(***************************************************************************)
(* C19: no step of an install, an inspection, a replacement request or a   *)
(* token issuance, successful or failed, changes the status of a lot; the  *)
(* status of a lot changes only when a depot-staff transition on that lot  *)
(* is saved.                                                               *)
(***************************************************************************)
StatusFramed ==
  {"workflow.install", "workflow.inspection", "workflow.replacement", "ephemeral.generateQr"}

C19_OnlyTransitionChangesStatus ==
  [][/\ \A r \in Slots :
          (reqs'[r] # reqs[r] /\ reqs'[r].handler \in StatusFramed)
            => \A l \in DOMAIN lots : lots'[l].status = lots[l].status
     /\ \A l \in DOMAIN lots :
          lots'[l].status # lots[l].status
            => \E r \in Slots :
                 /\ reqs[r].pc = "saveLot" /\ reqs'[r].pc # "saveLot"
                 /\ reqs[r].handler = "lots.status" /\ reqs[r].lotId = l
                 /\ users[reqs[r].actor].role = "depot-staff"]_vars

C19_Witness ==
  \E r \in Slots :
    /\ Wrote(reqs[r]) /\ reqs[r].handler = "workflow.install"
    /\ reqs[r].actor = "T1" /\ reqs[r].body.location = "Section A"
    /\ reqs[r].loadedStatus = "accepted"
    /\ lots[reqs[r].lotId].status = "accepted"
    /\ LastEntry(reqs[r].lotId).action = "installation_recorded"

(***************************************************************************)
(* C20: no step of a token validation, whatever its outcome, changes a     *)
(* lot, a user history or a replacement request; and a validation of a     *)
(* token value is answered with the lot whenever an earlier validation of  *)
(* the same value was and the token has not yet reached its expiry.        *)
(***************************************************************************)
FirstHeld(l, value) ==
  LET at == { i \in 1..Len(lots[l].qrTokens) : lots[l].qrTokens[i].token = value } IN
  lots[l].qrTokens[CHOOSE i \in at : \A j \in at : i <= j]

Validated(q) ==
  Done(q) /\ q.handler = "ephemeral.get" /\ q.token # Undef /\ q.lotId \in DOMAIN lots

C20_ValidationReadOnlyRepeatable ==
  [][/\ \A r \in Slots :
          (reqs'[r] # reqs[r] /\ reqs'[r].handler = "ephemeral.get")
            => UNCHANGED <<lots, users, requests>>
     /\ \A r, p \in Slots :
          (/\ r # p
           /\ Validated(reqs[r]) /\ reqs[r].code = 200
           /\ reqs'[p] # reqs[p] /\ Validated(reqs'[p])
           /\ reqs'[p].lotId = reqs[r].lotId /\ reqs'[p].token = reqs[r].token
           /\ now < FirstHeld(reqs[r].lotId, reqs[r].token).expiresAt)
            => (reqs'[p].code = 200 /\ \E doc \in reqs'[p].data : doc.id = reqs'[p].lotId)]_vars

C20_Witness ==
  /\ Validated(reqs["r1"]) /\ Validated(reqs["r2"])
  /\ reqs["r1"].token = "a1b2c3d4" /\ reqs["r2"].token = "a1b2c3d4"
  /\ reqs["r1"].actor = "V2" /\ reqs["r2"].actor = "I1"
  /\ reqs["r1"].code = 200 /\ reqs["r2"].code = 200
  /\ reqs["r1"].checkedAt = 0 /\ reqs["r2"].checkedAt = 0
  /\ lots["LOT001"].qrTokens = << IssuedToken >>
  /\ lots["LOT001"].auditTrail = << IssuedEntry >>

(***************************************************************************)
(* C21: in every step, under every interleaving of two handlers, the audit *)
(* trail a lot had before the step is a prefix of the trail it has after   *)
(* the step: no entry is removed, moved or rewritten and a new entry goes  *)
(* at the tail.                                                            *)
(***************************************************************************)
IsPrefix(a, b) == Len(a) <= Len(b) /\ \A i \in 1..Len(a) : a[i] = b[i]

C21_TrailAppendOnly ==
  [][\A l \in DOMAIN lots :
       l \in DOMAIN lots' /\ IsPrefix(lots[l].auditTrail, lots'[l].auditTrail)]_vars

C21_Witness ==
  /\ Wrote(reqs["r1"]) /\ Wrote(reqs["r2"])
  /\ reqs["r1"].handler = "lots.status" /\ reqs["r2"].handler = "ephemeral.generateQr"
  /\ reqs["r1"].preTrailLen = 0 /\ reqs["r2"].preTrailLen = 0
  /\ Len(lots["LOT001"].auditTrail) = 2
  /\ lots["LOT001"].auditTrail[1].action = "qr_generated"
  /\ lots["LOT001"].auditTrail[2].action = "status_updated"

(***************************************************************************)
(* C22: in every reachable state, those reached by overlapping handlers    *)
(* included, the timestamps of a lot's audit entries never decrease along  *)
(* the trail: an entry appended later carries a timestamp greater than or  *)
(* equal to that of every entry before it.                                 *)
(***************************************************************************)
C22_TimestampsMonotonic ==
  \A l \in DOMAIN lots :
    \A i, j \in 1..Len(lots[l].auditTrail) :
      i < j => lots[l].auditTrail[i].timestamp <= lots[l].auditTrail[j].timestamp

(***************************************************************************)
(* C23: no step changes a token that a lot holds, its expiry included; a   *)
(* token value that validation judges expired for a lot is not judged      *)
(* valid for it after any step, an issuance for the same lot included; and *)
(* a validation that follows one answered "expired" for the same value and *)
(* lot is answered 401 as well.                                            *)
(***************************************************************************)
C23_ExpiryPermanent ==
  [][/\ \A l \in DOMAIN lots :
          l \in DOMAIN lots' /\ IsPrefix(lots[l].qrTokens, lots'[l].qrTokens)
     /\ \A l \in DOMAIN lots : \A value \in TokenVals :
          TokenCheck(lots[l].qrTokens, value, now) = "QR token has expired"
            => TokenCheck(lots'[l].qrTokens, value, now') # "ok"
     /\ \A r, p \in Slots :
          (/\ r # p
           /\ Validated(reqs[r]) /\ reqs[r].message = "QR token has expired"
           /\ reqs'[p] # reqs[p] /\ Validated(reqs'[p])
           /\ reqs'[p].lotId = reqs[r].lotId /\ reqs'[p].token = reqs[r].token)
            => (reqs'[p].code = 401 /\ reqs'[p].data = {})]_vars

C23_Witness ==
  \E r \in Slots :
    /\ Validated(reqs[r]) /\ reqs[r].lotId = "LOT001" /\ reqs[r].token = "a1b2c3d4"
    /\ reqs[r].code = 401 /\ reqs[r].message = "QR token has expired"
    /\ Len(lots["LOT001"].qrTokens) = 2
    /\ lots["LOT001"].qrTokens[1] = IssuedToken
    /\ lots["LOT001"].qrTokens[2].token = "a1b2c3d4"
    /\ reqs[r].checkedAt < lots["LOT001"].qrTokens[2].expiresAt

(***************************************************************************)
(* C24: a validation that presents, for a stored lot, a token value that   *)
(* lot does not hold is answered 401 "Invalid QR token" and carries no lot *)
(* record, whether or not another lot holds that value unexpired.          *)
(***************************************************************************)
C24_TokenScopedToLot ==
  [][\A r \in Slots :
       (/\ reqs'[r] # reqs[r] /\ Validated(reqs'[r])
        /\ TokensOf(reqs'[r].lotId, reqs'[r].token) = {})
         => (/\ reqs'[r].code = 401
             /\ reqs'[r].message = "Invalid QR token"
             /\ reqs'[r].data = {})]_vars

C24_Witness ==
  \E r \in Slots :
    /\ Validated(reqs[r]) /\ reqs[r].lotId = "LOT002" /\ reqs[r].token = "a1b2c3d4"
    /\ reqs[r].code = 401 /\ reqs[r].message = "Invalid QR token"
    /\ lots["LOT002"].qrTokens = << >>
    /\ TokenCheck(lots["LOT001"].qrTokens, "a1b2c3d4", reqs[r].checkedAt) = "ok"

(***************************************************************************)
(* C25: every completed replacement request made by a track worker or an   *)
(* inspector with valid input for a stored lot succeeded with 201 and its  *)
(* request is stored, and no two stored requests share an identifier.      *)
(***************************************************************************)
ValidReplacement(q) ==
  /\ q.handler = "workflow.replacement"
  /\ q.actor \in UserIds /\ users[q.actor].role \in RequestedByRoles
  /\ q.lotId \in DOMAIN lots
  /\ HasRequired(q.body)
  /\ q.body.reason \in Reasons /\ Priority(q.body) \in Priorities

C25_RequestIdsUnique ==
  /\ \A r \in Slots :
       (Done(reqs[r]) /\ ValidReplacement(reqs[r]))
         => /\ reqs[r].code = 201
            /\ \E x \in requests : x.requestedBy = reqs[r].actor /\ x \in reqs[r].data
  /\ \A x, y \in requests : x.id = y.id => x = y

(***************************************************************************)
(* C26: in every state the status of a lot is the newStatus of the last    *)
(* status_updated entry of its audit trail, and pending when the trail has *)
(* no such entry.                                                          *)
(***************************************************************************)
StatusEntriesOf(l) ==
  SelectSeq(lots[l].auditTrail, LAMBDA e : e.action = "status_updated")

C26_StatusAgreesWithTrail ==
  \A l \in DOMAIN lots :
    lots[l].status = IF StatusEntriesOf(l) = << >> THEN "pending"
                     ELSE StatusEntriesOf(l)[Len(StatusEntriesOf(l))].metadata.newStatus

(***************************************************************************)
(* C27: under every interleaving, the previousStatus of each               *)
(* status_updated entry is the newStatus of the status_updated entry       *)
(* before it in the trail, and pending for the first one.                  *)
(***************************************************************************)
C27_StatusEntriesChain ==
  \A l \in DOMAIN lots : \A i \in 1..Len(StatusEntriesOf(l)) :
    StatusEntriesOf(l)[i].metadata.previousStatus =
      IF i = 1 THEN "pending" ELSE StatusEntriesOf(l)[i - 1].metadata.newStatus

(***************************************************************************)
(* C28: once no request is in flight, every actor's history has as many    *)
(* entries as there are audit entries, over all lots, that name the actor. *)
(***************************************************************************)
EntriesBy(u) ==
  UNION { { <<l, i>> : i \in { j \in 1..Len(lots[l].auditTrail) :
                                  lots[l].auditTrail[j].actorId = u } } :
          l \in DOMAIN lots }

C28_HistoryMirrorsTrail ==
  Quiet => \A u \in DOMAIN users : Len(users[u].history) = Cardinality(EntriesBy(u))

(***************************************************************************)
(* C29: every answer that carries a lot record went to an authenticated    *)
(* actor who is not a vendor, or is the vendor who owns the lot, or        *)
(* presented a token the lot holds unexpired.                              *)
(***************************************************************************)
LotReaders == {"lots.get", "lots.qr", "ephemeral.get", "qr.scan"}

Disclosed(q) ==
  /\ Done(q) /\ q.handler \in LotReaders /\ q.code = 200
  /\ q.lotId \in DOMAIN lots
  /\ \E doc \in q.data : doc.id = q.lotId /\ doc.qrTokens = lots[q.lotId].qrTokens

C29_LotDisclosedOnlyWithAccess ==
  \A r \in Slots :
    LET q == reqs[r] IN
    Disclosed(q)
      => /\ q.actor \in UserIds
         /\ \/ users[q.actor].role # "vendor"
            \/ lots[q.lotId].vendorId = q.actor
            \/ /\ q.handler = "ephemeral.get" /\ q.token # Undef
               /\ TokenCheck(lots[q.lotId].qrTokens, q.token, q.checkedAt) = "ok"

(***************************************************************************)
(* C30: a completed replacement request by a track worker or an inspector  *)
(* for a stored lot, with reason and description present but a reason or   *)
(* priority outside the enumerations, was answered 400, stored no request  *)
(* and left the audit trail as it found it; and a stored request made      *)
(* without a priority has priority medium.                                 *)
(***************************************************************************)
OutOfEnum(q) ==
  /\ q.handler = "workflow.replacement"
  /\ q.actor \in UserIds /\ users[q.actor].role \in RequestedByRoles
  /\ q.lotId \in DOMAIN lots
  /\ HasRequired(q.body)
  /\ (q.body.reason \notin Reasons \/ Priority(q.body) \notin Priorities)

C30_EnumsRejectedAsValidation ==
  \A r \in Slots :
    LET q == reqs[r] IN
    /\ (Done(q) /\ OutOfEnum(q))
         => /\ q.code = 400
            /\ \A x \in requests : x.reason \in Reasons /\ x.priority \in Priorities
            /\ Quiet => Len(lots[q.lotId].auditTrail) = q.preTrailLen
    /\ (Done(q) /\ ValidReplacement(q) /\ q.code = 201 /\ q.body.priority = Undef)
         => \A x \in q.data : x.priority = "medium"

====
